---------------------------- MODULE Spec2Model ----------------------------
(***************************************************************************)
(* A model of the wiki pipeline of maid_in_abyss:                          *)
(*   - WikiRequest, the paginated remote iterator (backend/api.py),        *)
(*   - the cache layer with ExpirePipeline (backend/cache.py),             *)
(*   - the content orchestrator handle_request (backend/api.py),           *)
(*   - the interactive navigator (interactivity.py) and the delete         *)
(*     button (exts/meta/delete.py).                                       *)
(*                                                                         *)
(* Three specifications share the variables:                               *)
(*   SpecWiki  one WikiRequest object iterated against a remote server,    *)
(*   Spec      concurrent handle_request calls against the cache,          *)
(*   SpecNav   one displayed message and the controls bound to it.         *)
(***************************************************************************)
EXTENDS Integers, Sequences, FiniteSets, TLC

VARIABLES
    \* ---- WikiRequest (SpecWiki) ----
    responses,      \* the remote server: the page responses it serves
    wr_iterator,    \* WikiRequest._iterator: records not yet yielded
    wr_continue,    \* WikiRequest._continue: 0 is {}, k is the token of page k+1
    wr_done,        \* WikiRequest._done
    gets,           \* number of HTTP GETs issued so far
    lastResp,       \* index of the response received last (0: none yet)
    received,       \* the indices of the responses received, in order
    seenBC,         \* a response carrying batchcomplete has been received
    yielded,        \* the records returned to the consumer, in order
    last,           \* outcome of the last pass through __anext__
    \* ---- cache and orchestrator (Spec, SpecNav) ----
    cache,          \* the redis store: key -> hash fields and TTL
    req,            \* the handle_request calls in flight
    \* ---- navigator (SpecNav) ----
    msg,            \* the displayed message: embeds and bound controls
    nav,            \* what the last interaction did (observation record)
    \* ---- single components driven directly (SpecCache) ----
    pipe,           \* the ExpirePipeline batch executed last
    got,            \* the typed cache read helper called last and its outcome
    \* ---- listing sweep (SpecListing) ----
    sweep,          \* one fetch_unique_pages run: titles seen, rows yielded
    \* ---- domain models (SpecStigmata) ----
    sset,           \* one StigmataSet construction: its input and outcome
    bonus,          \* one StigmataSet and what get_main_set_with_bonuses returned
    weapon          \* one Weapon parse: its input, outcome, stats and max_rarity

vars == << responses, wr_iterator, wr_continue, wr_done, gets, lastResp, received,
           seenBC, yielded, last, cache, req, msg, nav, pipe, got, sweep, sset,
           bonus, weapon >>

libVars == << pipe, got, sweep, sset, bonus, weapon >>

wikiVars == << responses, wr_iterator, wr_continue, wr_done, gets, lastResp,
               received, seenBC, yielded, last >>

\* -------------------------------------------------------------------------
\* Bounds of the model
\* -------------------------------------------------------------------------
MaxPages == 2      \* page responses the remote server holds
MaxRecs  == 2      \* records in one page response
MaxGets  == 4      \* HTTP GETs one WikiRequest may issue in the model

\* -------------------------------------------------------------------------
\* WikiRequest  (backend/api.py:24-97)
\* -------------------------------------------------------------------------

\* A page response is an HTTP-success JSON envelope holding query.pages:
\*   recs  the records of query.pages, each TRUE iff it passes model validation
\*   cont  the envelope carries a "continue" token
\*   bc    the envelope carries "batchcomplete"
RecSeqs == UNION { [1..n -> BOOLEAN] : n \in 0..MaxRecs }

Response == [recs : RecSeqs, cont : BOOLEAN, bc : BOOLEAN]

\* The server answers by the continuation parameters alone; the response after
\* the last one does not exist, so the last response carries no token.
ResponseSeqs ==
    { rs \in UNION { [1..n -> Response] : n \in 1..MaxPages } :
        ~rs[Len(rs)].cont }

\* The records of response k as the iterator holds them: tagged by their place.
PageRecords(rs, k) ==
    [i \in 1..Len(rs[k].recs) |-> [page |-> k, pos |-> i, valid |-> rs[k].recs[i]]]

\* Mutant of DoneAfterChunk: the marker is ignored while a continue token is there.
DoneAfterChunk_UnlessContinue(done, resp) == done \/ (resp.bc /\ ~resp.cont)

\* "batchcomplete" in data  =>  self._done = True      (api.py:54-55)
DoneAfterChunk(done, resp) == done \/ resp.bc

\* self._continue = data.get("continue", {})            (api.py:68)
ContinueAfterChunk(k, resp) == IF resp.cont THEN k ELSE 0

WikiInit ==
    /\ responses \in ResponseSeqs
    /\ wr_iterator = << >>
    /\ wr_continue = 0
    /\ wr_done = FALSE
    /\ gets = 0
    /\ lastResp = 0
    /\ received = << >>
    /\ seenBC = FALSE
    /\ yielded = << >>
    /\ last = "none"

\* self.model(**value): return it, or on ValidationError recurse (api.py:83-97).
\* The recursion re-enters __anext__ on the same object, so the next pass of
\* Anext is the recursive call.
Deliver(value) ==
    IF value.valid
    THEN /\ yielded' = Append(yielded, << value.page, value.pos >>)
         /\ last' = "value"
    ELSE /\ yielded' = yielded
         /\ last' = "skip"

\* value = next(self._iterator) succeeds                (api.py:72-73)
AnextBuffered ==
    /\ wr_iterator # << >>
    /\ wr_iterator' = Tail(wr_iterator)
    /\ Deliver(Head(wr_iterator))
    /\ UNCHANGED << wr_continue, wr_done, gets, lastResp, received, seenBC >>

\* Mutant of AnextStop: StopIteration is raised instead of StopAsyncIteration,
\* which leaves the coroutine as RuntimeError.
AnextStop_RaisesStopIteration ==
    /\ wr_iterator = << >>
    /\ wr_done
    /\ last' = "error"
    /\ UNCHANGED << wr_iterator, wr_continue, wr_done, gets, lastResp, received,
                    seenBC, yielded >>

\* StopIteration and self._done: raise StopAsyncIteration (api.py:75-77)
AnextStop ==
    /\ wr_iterator = << >>
    /\ wr_done
    /\ last' = "stop"
    /\ UNCHANGED << wr_iterator, wr_continue, wr_done, gets, lastResp, received,
                    seenBC, yielded >>

\* StopIteration and not done: get_chunk, then next() on the new iterator
\* (api.py:79-81).  next() on an empty chunk raises StopIteration inside the
\* coroutine, which Python turns into RuntimeError.
AnextFetch ==
    /\ wr_iterator = << >>
    /\ ~wr_done
    /\ gets < MaxGets
    /\ LET k     == wr_continue + 1
           resp  == responses[k]
           chunk == PageRecords(responses, k)
       IN  /\ gets' = gets + 1
           /\ lastResp' = k
           /\ received' = Append(received, k)
           /\ seenBC' = (seenBC \/ resp.bc)
           /\ wr_done' = DoneAfterChunk(wr_done, resp)
           /\ wr_continue' = ContinueAfterChunk(k, resp)
           /\ IF chunk = << >>
              THEN /\ wr_iterator' = << >>
                   /\ yielded' = yielded
                   /\ last' = "error"
              ELSE /\ wr_iterator' = Tail(chunk)
                   /\ Deliver(Head(chunk))

Anext ==
    /\ \/ AnextBuffered
       \/ AnextStop
       \/ AnextFetch
    /\ UNCHANGED << responses, cache, req, msg, nav, libVars >>


\* -------------------------------------------------------------------------
\* The wiki and its alias table: what the remote API and the lookup service
\* answer.  Page 4 does not exist on the wiki.
\* -------------------------------------------------------------------------
BATTLESUITS == "Category:Battlesuits"
ELFS        == "Category:ELFs"
STIGMATA    == "Category:Stigmata"
EVENT_STIGMATA == "Category:Event Stigmata"
WEAPONS     == "Category:Weapons"

\* constants.RequestCategory: the five members of the enum
RequestCategory == { BATTLESUITS, ELFS, STIGMATA, EVENT_STIGMATA, WEAPONS }

\* The category strings a caller may pass: the members of the enum and a
\* string that is none of them.
CategoryInputs == RequestCategory \cup { "Category:Pets" }

PageIds == 1..4

\* The wikitext stat fields of a page, one slot per name of _pack_stats'
\* `rarities` ("base", "2nd", "3rd", "4th", "5th", "max"); 0 is a field that is
\* absent or empty.  Page 2 is a weapon of base rarity 3 that fills the base,
\* 2nd and max fields.  Page 3 is a battlesuit page that links to no page, and
\* page 4 is an id the wiki does not have.
NoTiers == << 0, 0, 0, 0, 0, 0 >>

Wiki ==
    [p \in PageIds |->
        CASE p = 1 -> [exists |-> TRUE,  kind |-> BATTLESUITS, links |-> << 2, 3 >>,
                       rarity |-> 0, atk |-> NoTiers, crt |-> NoTiers]
          [] p = 2 -> [exists |-> TRUE,  kind |-> WEAPONS,     links |-> << 1 >>,
                       rarity |-> 3, atk |-> << 30, 40, 0, 0, 0, 50 >>,
                                     crt |-> << 3, 4, 0, 0, 0, 5 >>]
          [] p = 3 -> [exists |-> TRUE,  kind |-> BATTLESUITS, links |-> << >>,
                       rarity |-> 0, atk |-> NoTiers, crt |-> NoTiers]
          [] OTHER -> [exists |-> FALSE, kind |-> "",          links |-> << >>,
                       rarity |-> 0, atk |-> NoTiers, crt |-> NoTiers] ]

\* -------------------------------------------------------------------------
\* Cache store  (backend/cache.py)
\* -------------------------------------------------------------------------
CATEGORY   == "category"
CONTENT    == "content"
WIKILINKS  == "wikilinks"
STATS      == "stats"
MIN_RARITY == "rarity"
MAX_RARITY == "max_rarity"

ContentKind == { CATEGORY, CONTENT, WIKILINKS, STATS, MIN_RARITY, MAX_RARITY }

CACHE_EXPIRE_TIME == 300
TickStep == 150        \* seconds that pass in one Tick

\* Stored values are tuples; a missing field reads as NoneV (redis nil).
NoneV == << >>
Raw(s)  == << "raw", s >>
Json(x) == << "json", x >>          \* utilities.json_dumps
JsonLoads(s) == s[2]                \* utilities.json_loads
StrOf(n) == << "str", n >>         \* str(int)
IntOf(s) == s[2]                   \* int(str)

EmptyHash == [f \in ContentKind |-> NoneV]
\* An absent key has no fields and TTL 0.
EmptyCache == [p \in PageIds |-> [h |-> EmptyHash, ttl |-> 0]]

KeyExists(c, key) == \E f \in ContentKind : c[key].h[f] # NoneV

\* One redis command, applied to the store: the store after it and its reply.
HMGET(key, fields)    == [cmd |-> "HMGET",  key |-> key, fields |-> fields,
                          mapping |-> EmptyHash, secs |-> 0]
HGET(key, field)      == [cmd |-> "HGET",   key |-> key, fields |-> << field >>,
                          mapping |-> EmptyHash, secs |-> 0]
HSET(key, mapping)    == [cmd |-> "HSET",   key |-> key, fields |-> << >>,
                          mapping |-> mapping, secs |-> 0]
EXPIRE(key, secs)     == [cmd |-> "EXPIRE", key |-> key, fields |-> << >>,
                          mapping |-> EmptyHash, secs |-> secs]

ApplyCommand(c, cm) ==
    CASE cm.cmd = "HMGET" ->
            [cache |-> c,
             reply |-> << "list", [i \in 1..Len(cm.fields) |-> c[cm.key].h[cm.fields[i]]] >>]
      [] cm.cmd = "HGET" ->   \* replies the value itself, nil when missing
            [cache |-> c, reply |-> c[cm.key].h[cm.fields[1]]]
      [] cm.cmd = "HSET" ->
            [cache |-> [c EXCEPT ![cm.key].h =
                          [f \in ContentKind |->
                              IF cm.mapping[f] # NoneV THEN cm.mapping[f] ELSE @[f]]],
             reply |-> << "int", Cardinality({f \in ContentKind :
                              cm.mapping[f] # NoneV /\ c[cm.key].h[f] = NoneV}) >>]
      [] OTHER ->   \* EXPIRE: sets the TTL of an existing key, replies whether it did
            [cache |-> IF KeyExists(c, cm.key)
                       THEN [c EXCEPT ![cm.key].ttl = cm.secs] ELSE c,
             reply |-> << "bool", KeyExists(c, cm.key) >>]

\* MULTI/EXEC: the commands run in order with nothing in between.
RECURSIVE RunCommands(_, _)
RunCommands(c, stack) ==
    IF stack = << >>
    THEN [cache |-> c, data |-> << >>]
    ELSE LET one  == ApplyCommand(c, Head(stack))
             rest == RunCommands(one.cache, Tail(stack))
         IN  [cache |-> rest.cache, data |-> << one.reply >> \o rest.data]

RECURSIVE SetToSeq(_)
SetToSeq(S) ==
    IF S = {} THEN << >>
    ELSE LET x == CHOOSE y \in S : TRUE IN << x >> \o SetToSeq(S \ {x})

\* Mutant of ExpireCommandStack: the keys that carry their own EXPIRE are not
\* left out.
ExpireCommandStack_AllKeys(stack) ==
    LET to_expire == { stack[i].key : i \in { j \in 1..Len(stack) : stack[j].cmd # "EXPIRE" } }
        added     == SetToSeq(to_expire)
    IN  stack \o [i \in 1..Len(added) |-> EXPIRE(added[i], CACHE_EXPIRE_TIME)]

\* Mutant of ExpireCommandStack: the appended EXPIRE carries a tenth of the
\* constant.
ExpireCommandStack_ShortTTL(stack) ==
    LET expired   == { stack[i].key : i \in { j \in 1..Len(stack) : stack[j].cmd = "EXPIRE" } }
        to_expire == { stack[i].key : i \in { j \in 1..Len(stack) : stack[j].cmd # "EXPIRE" } }
        added     == SetToSeq(to_expire \ expired)
    IN  stack \o [i \in 1..Len(added) |-> EXPIRE(added[i], CACHE_EXPIRE_TIME \div 10)]

\* ExpirePipeline.execute, the command stack it hands to the transaction
\* (cache.py:73-82): every key of the batch that has no EXPIRE of its own gets
\* one, appended after the commands of the batch.
ExpireCommandStack(stack) ==
    LET expired   == { stack[i].key : i \in { j \in 1..Len(stack) : stack[j].cmd = "EXPIRE" } }
        to_expire == { stack[i].key : i \in { j \in 1..Len(stack) : stack[j].cmd # "EXPIRE" } }
        added     == SetToSeq(to_expire \ expired)
    IN  stack \o [i \in 1..Len(added) |-> EXPIRE(added[i], CACHE_EXPIRE_TIME)]

\* ExpirePipeline.execute (cache.py:72-84): the stack runs as one transaction.
ExpirePipelineExecute(c, stack) == RunCommands(c, ExpireCommandStack(stack))

\* Python truthiness of one reply, and all(data)
Truthy(reply) ==
    CASE reply[1] = "list" -> Len(reply[2]) > 0
      [] reply[1] = "int"  -> reply[2] # 0
      [] OTHER             -> reply[2]

all(data) == \A i \in 1..Len(data) : Truthy(data[i])

\* Time passing: every TTL runs down, a key whose TTL is used up is deleted.
Expired(c, key) == KeyExists(c, key) /\ c[key].ttl <= TickStep

AfterTick(c) ==
    [p \in PageIds |->
        IF ~KeyExists(c, p) THEN c[p]
        ELSE IF Expired(c, p) THEN [h |-> EmptyHash, ttl |-> 0]
        ELSE [c[p] EXCEPT !.ttl = @ - TickStep]]

\* -------------------------------------------------------------------------
\* Remote content and domain models  (backend/api.py:140-313)
\* -------------------------------------------------------------------------

\* request_content_revision (api.py:153-174): the first page WikiRequest yields
\* for pageids=<page_id>, or RuntimeError when it yields none.
request_content_revision(page_id) ==
    IF Wiki[page_id].exists
    THEN [ok |-> TRUE,  revision |-> << page_id, Wiki[page_id].kind >>]
    ELSE [ok |-> FALSE, revision |-> << >>]

\* models.<Kind>.parse_wikitext: a revision of another kind fails validation.
parse_wikitext(category, revision) == revision[2] = category

\* validate_wikilinks and the WikiLinkDict built from it (api.py:192-195):
\* page id -> (title, main_category), in the order the rows came back.
WikiLinkDict(page_id) ==
    LET links == Wiki[page_id].links
    IN  [i \in 1..Len(links) |-> << links[i], Wiki[links[i]].kind >>]

\* constants.WeaponRarity(n): an enum member for 1..6, ValueError otherwise
WeaponRarityValid(n) == n \in 1..6
WeaponRarity(n) == << "WeaponRarity", n >>
IntValue(n)     == << "int", n >>

\* Weapon._pack_stats (weapons.py:65-85): the slots are walked in order, a slot
\* without ATK is skipped, and each packed entry gets
\* rarity = base rarity + number of entries packed before it.
RECURSIVE PackStats(_, _, _, _, _)
PackStats(atk, crt, base_rarity, i, stats) ==
    IF i > Len(atk) THEN stats
    ELSE IF atk[i] = 0 THEN PackStats(atk, crt, base_rarity, i + 1, stats)
    ELSE PackStats(atk, crt, base_rarity, i + 1,
                   Append(stats, [rarity |-> base_rarity + Len(stats),
                                  attack |-> atk[i],
                                  crit   |-> crt[i]]))

WeaponStatsOf(page_id) ==
    PackStats(Wiki[page_id].atk, Wiki[page_id].crt, Wiki[page_id].rarity, 1, << >>)

\* Weapon.max_rarity (weapons.py:110-112)
MaxRarityOf(stats) == stats[Len(stats)].rarity

\* models.display.prettify_*: a header embed and an info embed; the weapon
\* header still holds its placeholders (fmt empty).
Prettify(page_id) ==
    << [page |-> page_id, part |-> "header", fmt |-> << >>],
       [page |-> page_id, part |-> "info",   fmt |-> << >>] >>

\* make_display_rarity (models/display.py:129-130)
make_display_rarity(rarity, max_rarity) ==
    << rarity, IF max_rarity > rarity THEN max_rarity - rarity ELSE 0 >>

\* FormattableEmbed.format on the header (utilities/embeds.py:6-29)
FormatHeader(header, rarity, stats_row, display_rarity) ==
    [header EXCEPT !.fmt = << rarity, stats_row, display_rarity >>]

\* -------------------------------------------------------------------------
\* Content orchestrator  (backend/api.py:202-398)
\* -------------------------------------------------------------------------
Handled == { BATTLESUITS, STIGMATA, WEAPONS }

\* The fields each handler asks the cache for (api.py:209, 263, 323-332)
FieldsOf(category) ==
    IF category = WEAPONS
    THEN << CONTENT, WIKILINKS, STATS, MIN_RARITY, MAX_RARITY >>
    ELSE << CONTENT, WIKILINKS >>

\* pipe.hmget(...); data = await pipe.execute()
ReadPhase(c, category, page_id) ==
    ExpirePipelineExecute(c, << HMGET(page_id, FieldsOf(category)) >>)

\* if all(data):
HitPath(data) == all(data)

\* The weapon handlers' tail (api.py:361-373): format the header at the
\* minimum rarity and return the bounds.
WeaponResult(content, wikilinks, stats, min_rarity, max_rarity) ==
    << << FormatHeader(content[1], min_rarity, stats[1],
                       make_display_rarity(min_rarity[2], max_rarity[2])),
          content[2] >>,
       wikilinks,
       << stats, min_rarity, max_rarity >> >>

PlainResult(content, wikilinks) == << content, wikilinks, << >> >>

\* The cache-hit branch: deserialize what was read.  A missing value makes
\* the parse helpers raise.
HitResult(category, data) ==
    LET raw == data[1][2]
    IN  IF \E i \in 1..Len(raw) : raw[i] = NoneV
        THEN [ok |-> FALSE, result |-> << >>]
        ELSE IF category = WEAPONS
        THEN [ok |-> TRUE,
              result |-> WeaponResult(JsonLoads(raw[1]), JsonLoads(raw[2]),
                                      JsonLoads(raw[3]),
                                      IntValue(IntOf(raw[4])), IntValue(IntOf(raw[5])))]
        ELSE [ok |-> TRUE, result |-> PlainResult(JsonLoads(raw[1]), JsonLoads(raw[2]))]

\* Mutant of RequestPhase: an empty remote result is passed on as a page.
RequestPhase_AlwaysOk(category, page_id) == "ok"

\* request_battlesuit / request_stigmata / request_weapon
\*   outcome "ok": the model, link graph and content were built
RequestPhase(category, page_id) ==
    LET rev == request_content_revision(page_id)
    IN  IF ~rev.ok THEN "RuntimeError"
        \* models.StigmataSet derives from wiki/api_types.ContentBase, which
        \* has no parse_wikitext: api.py:244 raises AttributeError.
        ELSE IF category = STIGMATA THEN "AttributeError"
        ELSE IF ~parse_wikitext(category, rev.revision) THEN "ValidationError"
        ELSE "ok"

\* cache.set_battlesuit / set_stigmata / set_weapon (cache.py:95-153)
SetMapping(category, page_id) ==
    [f \in ContentKind |->
        CASE f = CATEGORY  -> Raw(category)
          [] f = CONTENT   -> Json(Prettify(page_id))
          [] f = WIKILINKS -> Json(WikiLinkDict(page_id))
          [] f = STATS     -> IF category = WEAPONS
                              THEN Json(WeaponStatsOf(page_id)) ELSE NoneV
          [] f = MIN_RARITY -> IF category = WEAPONS
                               THEN StrOf(Wiki[page_id].rarity) ELSE NoneV
          [] OTHER         -> IF category = WEAPONS
                              THEN StrOf(MaxRarityOf(WeaponStatsOf(page_id))) ELSE NoneV]

\* Mutant of WritePhase: the content is written first, in a batch of its own.
WritePhase_ContentFirst(c, category, page_id) ==
    ExpirePipelineExecute(c,
        << HSET(page_id, [EmptyHash EXCEPT ![CONTENT] = Json(Prettify(page_id))]) >>).cache

\* Mutant of WritePhase: the batch is built but never executed.
WritePhase_NotExecuted(c, category, page_id) == c

WritePhase(c, category, page_id) ==
    ExpirePipelineExecute(c, << HSET(page_id, SetMapping(category, page_id)) >>).cache

\* What the cache-miss branch returns
MissResult(category, page_id) ==
    IF category = WEAPONS
    THEN WeaponResult(Prettify(page_id), WikiLinkDict(page_id), WeaponStatsOf(page_id),
                      WeaponRarity(Wiki[page_id].rarity),
                      WeaponRarity(MaxRarityOf(WeaponStatsOf(page_id))))
    ELSE PlainResult(Prettify(page_id), WikiLinkDict(page_id))

\* The categories the ValueError of handle_request names as expected
\* (api.py:393-396): ', '.join(constants.RequestCategory)
ReportedCategories == RequestCategory

\* --- handle_request as concurrent calls, one step per suspension point ---
Reqs == { "r1", "r2" }

IdleReq ==
    [pc |-> "idle", category |-> "", page |-> 0, sawKey |-> FALSE, data |-> << >>,
     hit |-> FALSE, fetched |-> FALSE, outcome |-> "", result |-> << >>,
     stored |-> EmptyHash, reported |-> {}]

\* handle_request up to its first suspension that leaves the task waiting:
\* the dispatch (api.py:383-396) and the grouped cache read of the handler.
Start(r, category, page_id) ==
    /\ req[r].pc \in { "idle", "done" }
    /\ IF category \notin Handled
       THEN /\ req' = [req EXCEPT ![r] =
                        [IdleReq EXCEPT !.pc = "done", !.category = category,
                                        !.page = page_id, !.outcome = "ValueError",
                                        !.reported = ReportedCategories]]
            /\ cache' = cache
       ELSE LET ex   == ReadPhase(cache, category, page_id)
                base == [IdleReq EXCEPT !.category = category, !.page = page_id,
                                        !.sawKey = KeyExists(cache, page_id),
                                        !.data = ex.data[1][2],
                                        !.hit = HitPath(ex.data)]
            IN  /\ cache' = ex.cache
                /\ IF HitPath(ex.data)
                   THEN LET h == HitResult(category, ex.data)
                        IN  req' = [req EXCEPT ![r] =
                                [base EXCEPT !.pc = "done",
                                             !.outcome = IF h.ok THEN "ok" ELSE "ParseError",
                                             !.result = h.result]]
                   ELSE req' = [req EXCEPT ![r] = [base EXCEPT !.pc = "fetch"]]
    /\ UNCHANGED << wikiVars, libVars, msg, nav >>

\* await request_<kind>(session, query=page_id)
Fetch(r) ==
    /\ req[r].pc = "fetch"
    /\ LET o == RequestPhase(req[r].category, req[r].page)
       IN  req' = [req EXCEPT ![r] =
                     IF o = "ok"
                     THEN [@ EXCEPT !.pc = "write", !.fetched = TRUE]
                     ELSE [@ EXCEPT !.pc = "done", !.fetched = TRUE, !.outcome = o]]
    /\ UNCHANGED << wikiVars, libVars, cache, msg, nav >>

\* await cache.set_<kind>(...), then the return
Write(r) ==
    /\ req[r].pc = "write"
    /\ cache' = WritePhase(cache, req[r].category, req[r].page)
    /\ req' = [req EXCEPT ![r] =
                 [@ EXCEPT !.pc = "done", !.outcome = "ok",
                           !.result = MissResult(req[r].category, req[r].page),
                           !.stored = cache'[req[r].page].h]]
    /\ UNCHANGED << wikiVars, libVars, msg, nav >>

\* Time passes.
Tick ==
    /\ \E p \in PageIds : KeyExists(cache, p)
    /\ cache' = AfterTick(cache)
    /\ UNCHANGED << wikiVars, libVars, req, msg, nav >>

\* handle_request awaited to its end by one caller, nothing interleaved: the
\* three phases above in the order of api.py:202-232 / 256-286 / 316-373.
HandleRequest(c, category, page_id) ==
    IF category \notin Handled
    THEN [cache |-> c, outcome |-> "ValueError", result |-> << >>,
          read |-> FALSE, fetched |-> FALSE]
    ELSE LET ex == ReadPhase(c, category, page_id)
         IN  IF HitPath(ex.data)
             THEN LET h == HitResult(category, ex.data)
                  IN  [cache |-> ex.cache,
                       outcome |-> IF h.ok THEN "ok" ELSE "ParseError",
                       result |-> h.result, read |-> TRUE, fetched |-> FALSE]
             ELSE LET o == RequestPhase(category, page_id)
                  IN  IF o = "ok"
                      THEN [cache |-> WritePhase(ex.cache, category, page_id),
                            outcome |-> "ok", result |-> MissResult(category, page_id),
                            read |-> TRUE, fetched |-> TRUE]
                      ELSE [cache |-> ex.cache, outcome |-> o, result |-> << >>,
                            read |-> TRUE, fetched |-> TRUE]

\* -------------------------------------------------------------------------
\* Interactive navigator  (interactivity.py, exts/meta/delete.py)
\* -------------------------------------------------------------------------
Author == "captain"
Users  == { "captain", "visitor" }

\* disnake.Permissions as the set of flags that are on
PermissionFlags == { "manage_messages", "send_messages" }
Permissions == SUBSET PermissionFlags

\* disnake.Permissions.is_strict_superset:
\*   (self.value | other.value) == self.value and self.value != other.value
is_strict_superset(self, other) == (self \cup other) = self /\ self # other

\* build_wikilink_browser_options (interactivity.py:13-42); back_id 0 is None.
\* An option is its value: << page_id, category >>.
build_wikilink_browser_options(wikilinks, back_id, back_category) ==
    LET back == IF back_id # 0 /\ back_category # ""
                THEN << << back_id, back_category >> >> ELSE << >>
        keep(o) == o[1] # back_id
    IN  back \o SelectSeq(wikilinks, keep)

\* build_rarity_browser_options (interactivity.py:45-62): the labels and the
\* one marked default.
build_rarity_browser_options(min_rarity, max_rarity, current_rarity) ==
    [labels |-> [i \in 1..(IF max_rarity >= min_rarity
                           THEN max_rarity - min_rarity + 1 ELSE 0) |-> min_rarity + i - 1],
     default |-> current_rarity]

\* build_delete_button (interactivity.py:190-194)
build_delete_button(user_id) ==
    [user_id |-> user_id, permissions |-> { "manage_messages" }]

\* build_for_content (interactivity.py:198-238).  Each control is a tuple that
\* is empty when the control is not on the message.
build_for_content(author_id, category, page_id, current_page_id, current_category, wikilinks, metadata) ==
    LET options == build_wikilink_browser_options(wikilinks, current_page_id,
                                                  current_category)
    IN  [browser |-> IF wikilinks # << >> /\ options # << >>
                     THEN << [options |-> options, author_id |-> author_id,
                              category |-> category, current_page_id |-> page_id] >>
                     ELSE << >>,
         rarity  |-> IF page_id # 0 /\ category = WEAPONS
                     THEN << [options |-> build_rarity_browser_options(
                                              metadata[2][2], metadata[3][2], metadata[2][2]),
                              page_id |-> page_id, author_id |-> author_id] >>
                     ELSE << >>,
         delete  |-> << build_delete_button(author_id) >>]

NoNav ==
    [action |-> "none", user |-> "", outcome |-> "", notice |-> FALSE,
     call |-> << >>, read |-> FALSE, fetched |-> FALSE, input |-> << >>,
     src |-> << >>]

\* The message as first displayed for (category, page_id): the orchestrator's
\* result with the controls built for it, no Back option yet.
FirstMessage(category, page_id) ==
    LET hr == HandleRequest(EmptyCache, category, page_id)
    IN  [alive |-> TRUE, embeds |-> hr.result[1],
         components |-> build_for_content(Author, category, page_id, 0, "",
                                          hr.result[2], hr.result[3])]

\* Mutant of PyIndex: the offset is read as a position counted from one.
PyIndex_OneBased(seq, i) == IF i >= 1 THEN seq[i] ELSE seq[Len(seq)]

\* python list indexing, negative indices counting from the end
PyIndexOk(seq, i) == -Len(seq) <= i /\ i < Len(seq)
PyIndex(seq, i) == IF i >= 0 THEN seq[i + 1] ELSE seq[Len(seq) + i + 1]

\* Mutant of wikilink_browser: the author check is missing.
wikilink_browser_NoAuthorCheck(user, query) ==
    /\ msg.alive
    /\ msg.components.browser # << >>
    /\ LET ctl == msg.components.browser[1]
           hr  == HandleRequest(cache, query[2], query[1])
       IN  /\ cache' = hr.cache
           /\ msg' = IF hr.outcome = "ok"
                     THEN [msg EXCEPT
                             !.embeds = hr.result[1],
                             !.components =
                                 build_for_content(user, query[2], query[1],
                                                   ctl.current_page_id, ctl.category,
                                                   hr.result[2], hr.result[3])]
                     ELSE msg
           /\ nav' = [NoNav EXCEPT !.action = "browse", !.user = user,
                         !.outcome = IF hr.outcome = "ok" THEN "edited" ELSE hr.outcome,
                         !.input = query,
                         !.src = << ctl.current_page_id, ctl.category >>,
                         !.call = << query[2], query[1] >>,
                         !.read = hr.read, !.fetched = hr.fetched]
    /\ UNCHANGED << wikiVars, libVars, req >>

\* wikilink_browser (interactivity.py:65-107); query is the selected value.
wikilink_browser(user, query) ==
    /\ msg.alive
    /\ msg.components.browser # << >>
    /\ LET ctl             == msg.components.browser[1]
           page_id         == query[1]
           target_category == query[2]
       IN  IF ctl.author_id # user
           THEN /\ nav' = [NoNav EXCEPT !.action = "browse", !.user = user,
                                        !.outcome = "rejected", !.notice = TRUE,
                                        !.input = query,
                                        !.src = << ctl.current_page_id, ctl.category >>]
                /\ UNCHANGED << cache, msg >>
           ELSE LET hr == HandleRequest(cache, target_category, page_id)
                IN  /\ cache' = hr.cache
                    /\ IF hr.outcome = "ok"
                       THEN /\ msg' = [msg EXCEPT
                                   !.embeds = hr.result[1],
                                   !.components =
                                       build_for_content(user, target_category, page_id,
                                                         ctl.current_page_id, ctl.category,
                                                         hr.result[2], hr.result[3])]
                            /\ nav' = [NoNav EXCEPT !.action = "browse", !.user = user,
                                          !.outcome = "edited", !.input = query,
                                          !.src = << ctl.current_page_id, ctl.category >>,
                                          !.call = << target_category, page_id >>,
                                          !.read = hr.read, !.fetched = hr.fetched]
                       ELSE /\ msg' = msg
                            /\ nav' = [NoNav EXCEPT !.action = "browse", !.user = user,
                                          !.outcome = hr.outcome, !.input = query,
                                          !.src = << ctl.current_page_id, ctl.category >>,
                                          !.call = << target_category, page_id >>,
                                          !.read = hr.read, !.fetched = hr.fetched]
    /\ UNCHANGED << wikiVars, libVars, req >>

WikilinkBrowse ==
    \E user \in Users :
        \E i \in 1..(IF msg.components.browser = << >> THEN 0
                     ELSE Len(msg.components.browser[1].options)) :
            wikilink_browser(user, msg.components.browser[1].options[i])

\* The rarities a change-rarity interaction may carry (the handler takes an int).
RarityInputs == 0..7

\* rarity_browser, the data it formats with (interactivity.py:131-162): from
\* the cache when the grouped read hits, else from a fresh revision.
RarityData(c, page_id) ==
    LET ex  == ExpirePipelineExecute(c,
                   << HMGET(page_id, << CONTENT, STATS, MIN_RARITY, MAX_RARITY >>) >>)
        raw == ex.data[1][2]
    IN  IF all(ex.data)
        THEN IF \E i \in 1..Len(raw) : raw[i] = NoneV
             THEN [cache |-> ex.cache, outcome |-> "ParseError", fetched |-> FALSE,
                   content |-> << >>, stats |-> << >>, min_rarity |-> 0, max_rarity |-> 0,
                   min_value |-> << >>]
             ELSE [cache |-> ex.cache, outcome |-> "ok", fetched |-> FALSE,
                   content |-> JsonLoads(raw[1]), stats |-> JsonLoads(raw[2]),
                   min_rarity |-> IntOf(raw[3]), max_rarity |-> IntOf(raw[4]),
                   min_value |-> IntValue(IntOf(raw[3]))]
        ELSE LET o == RequestPhase(WEAPONS, page_id)
             IN  IF o = "ok"
                 THEN [cache |-> ex.cache, outcome |-> "ok", fetched |-> TRUE,
                       content |-> Prettify(page_id), stats |-> WeaponStatsOf(page_id),
                       min_rarity |-> Wiki[page_id].rarity,
                       max_rarity |-> MaxRarityOf(WeaponStatsOf(page_id)),
                       min_value |-> WeaponRarity(Wiki[page_id].rarity)]
                 ELSE [cache |-> ex.cache, outcome |-> o, fetched |-> TRUE,
                       content |-> << >>, stats |-> << >>, min_rarity |-> 0, max_rarity |-> 0,
                       min_value |-> << >>]

\* The keyword arguments of header_embed.format (interactivity.py:164-168), in
\* the order python evaluates them: stats[rarity - min_rarity] first, then
\* make_display_rarity, whose WeaponRarity(rarity) may raise.
RarityFormatOutcome(stats, rarity, min_rarity) ==
    IF ~PyIndexOk(stats, rarity - min_rarity) THEN "IndexError"
    ELSE IF ~WeaponRarityValid(rarity) THEN "ValueError"
    ELSE "ok"

\* Mutant of ReplaceRaritySelect: every row of the message is cleared.
ReplaceRaritySelect_ClearsRows(components, select) ==
    [browser |-> << >>, rarity |-> << select >>, delete |-> << >>]

\* The rows of the message with the one component whose custom_id is the
\* activated one replaced (interactivity.py:171-183); the other rows are the
\* message's own.
ReplaceRaritySelect(components, select) ==
    [components EXCEPT !.rarity = << select >>]

\* rarity_browser (interactivity.py:110-187)
rarity_browser(user, rarity) ==
    /\ msg.alive
    /\ msg.components.rarity # << >>
    /\ LET ctl == msg.components.rarity[1]
       IN  IF ctl.author_id # user
           THEN /\ nav' = [NoNav EXCEPT !.action = "rarity", !.user = user,
                                        !.outcome = "rejected", !.notice = TRUE,
                                        !.input = << rarity >>]
                /\ UNCHANGED << cache, msg >>
           ELSE LET d == RarityData(cache, ctl.page_id)
                    o == IF d.outcome # "ok" THEN d.outcome
                         ELSE RarityFormatOutcome(d.stats, rarity, d.min_rarity)
                IN  /\ cache' = d.cache
                    /\ nav' = [NoNav EXCEPT !.action = "rarity", !.user = user,
                                  !.outcome = IF o = "ok" THEN "edited" ELSE o,
                                  !.input = << rarity >>,
                                  !.read = TRUE, !.fetched = d.fetched]
                    /\ IF o = "ok"
                       THEN msg' = [msg EXCEPT
                               !.embeds =
                                   << FormatHeader(d.content[1], d.min_value,
                                          PyIndex(d.stats, rarity - d.min_rarity),
                                          make_display_rarity(rarity, d.max_rarity)),
                                      d.content[2] >>,
                               !.components =
                                   ReplaceRaritySelect(msg.components,
                                       [options |-> build_rarity_browser_options(
                                                        d.min_rarity, d.max_rarity, rarity),
                                        page_id |-> ctl.page_id,
                                        author_id |-> ctl.author_id])]
                       ELSE msg' = msg
    /\ UNCHANGED << wikiVars, libVars, req >>

RarityBrowse == \E user \in Users : \E rarity \in RarityInputs : rarity_browser(user, rarity)

\* delete_button_listener (exts/meta/delete.py:20-38); inter_permissions are the
\* acting user's permissions in the channel.
delete_button_listener(user, inter_permissions) ==
    /\ msg.alive
    /\ LET ctl == msg.components.delete[1]
       IN  IF /\ user # ctl.user_id
              /\ is_strict_superset(ctl.permissions, inter_permissions)
           THEN /\ nav' = [NoNav EXCEPT !.action = "delete", !.user = user,
                                        !.outcome = "rejected", !.notice = TRUE,
                                        !.input = << inter_permissions >>]
                /\ msg' = msg
           ELSE /\ nav' = [NoNav EXCEPT !.action = "delete", !.user = user,
                                        !.outcome = "deleted",
                                        !.input = << inter_permissions >>]
                /\ msg' = [msg EXCEPT !.alive = FALSE]
    /\ UNCHANGED << wikiVars, libVars, cache, req >>

Delete == \E user \in Users : \E perms \in Permissions : delete_button_listener(user, perms)

\* Time passes while the message is displayed.
NavTick ==
    /\ msg.alive
    /\ \E p \in PageIds : KeyExists(cache, p)
    /\ cache' = AfterTick(cache)
    /\ nav' = NoNav
    /\ UNCHANGED << wikiVars, libVars, req, msg >>

\* -------------------------------------------------------------------------
\* Specifications
\* -------------------------------------------------------------------------
\* No batch has been driven directly.
NoPipe == [ran |-> FALSE, stack |-> << >>, executed |-> << >>, data |-> << >>,
           before |-> EmptyCache]

\* No helper has been called.
NoGot == [helper |-> "", key |-> 0, outcome |-> "", value |-> << >>]

\* fetch_unique_pages before its first page: titles = set()
NoSweep == [titles |-> {}, yielded |-> << >>, page |-> << >>, rows |-> << >>,
            out |-> << >>]

\* No StigmataSet is being constructed.
NoSet == [values |-> [stigmata |-> << >>, raw |-> {}, format |-> "value"], done |-> FALSE,
          outcome |-> "", stigmata |-> << >>]

\* No StigmataSet is being queried.
NoBonus == [stigmata |-> << >>, called |-> FALSE, main |-> << >>, bonuses |-> << >>,
            main_set |-> << >>, name |-> ""]

\* No Weapon is being parsed.
NoWeapon == [values |-> [given |-> FALSE, stats |-> << >>, rarity |-> 0, atk |-> << >>],
             parsed |-> FALSE, outcome |-> "", stats |-> << >>,
             max_rarity |-> [outcome |-> "", value |-> 0]]

LibIdle ==
    /\ pipe = NoPipe /\ got = NoGot /\ sweep = NoSweep
    /\ sset = NoSet /\ bonus = NoBonus /\ weapon = NoWeapon

NoMessage ==
    [alive |-> FALSE, embeds |-> << >>,
     components |-> [browser |-> << >>, rarity |-> << >>, delete |-> << >>]]

WikiIdle ==
    /\ responses = << >>
    /\ wr_iterator = << >>
    /\ wr_continue = 0
    /\ wr_done = FALSE
    /\ gets = 0
    /\ lastResp = 0
    /\ received = << >>
    /\ seenBC = FALSE
    /\ yielded = << >>
    /\ last = "none"

\* SpecWiki: one WikiRequest, any server
InitWiki ==
    /\ WikiInit
    /\ LibIdle
    /\ cache = EmptyCache
    /\ req = [r \in Reqs |-> IdleReq]
    /\ msg = NoMessage
    /\ nav = NoNav

NextWiki == Anext

SpecWiki == InitWiki /\ [][NextWiki]_vars

\* Spec: concurrent handle_request calls on an empty cache
Init ==
    /\ WikiIdle
    /\ LibIdle
    /\ cache = EmptyCache
    /\ req = [r \in Reqs |-> IdleReq]
    /\ msg = NoMessage
    /\ nav = NoNav

Next ==
    \/ \E r \in Reqs : \E category \in CategoryInputs : \E page_id \in PageIds :
           Start(r, category, page_id)
    \/ \E r \in Reqs : Fetch(r)
    \/ \E r \in Reqs : Write(r)
    \/ Tick

Spec == Init /\ [][Next]_vars

\* SpecNav: one message, displayed for any page the orchestrator can serve
FirstPages == { << BATTLESUITS, 1 >>, << WEAPONS, 2 >> }

InitNav ==
    /\ WikiIdle
    /\ LibIdle
    /\ \E first \in FirstPages :
          /\ cache = HandleRequest(EmptyCache, first[1], first[2]).cache
          /\ msg = FirstMessage(first[1], first[2])
    /\ req = [r \in Reqs |-> IdleReq]
    /\ nav = NoNav

NextNav ==
    \/ WikilinkBrowse
    \/ RarityBrowse
    \/ Delete
    \/ NavTick

SpecNav == InitNav /\ [][NextNav]_vars

\* -------------------------------------------------------------------------
\* SpecCache: the cache layer driven directly, one batch at a time
\* -------------------------------------------------------------------------
MaxBatch == 2      \* commands a caller puts in one batch

\* The keys the batches touch: page 1, a battlesuit, and page 2, a weapon
PipeKeys == 1..2

\* The commands a caller may put on the pipeline: the grouped read of the
\* weapon handler, the write of the page's own handler, an EXPIRE of its own.
BatchCommands ==
    UNION { { HMGET(k, FieldsOf(WEAPONS)),
              HSET(k, SetMapping(Wiki[k].kind, k)),
              EXPIRE(k, 60) } : k \in PipeKeys }

Batches == UNION { [1..n -> BatchCommands] : n \in 1..MaxBatch }

\* async with ExpirePipeline.from_redis_client(...) as pipe: <commands>;
\* await pipe.execute()
PipeExecute(stack) ==
    /\ LET ex == ExpirePipelineExecute(cache, stack)
       IN  /\ cache' = ex.cache
           /\ pipe' = [ran |-> TRUE, stack |-> stack,
                       executed |-> ExpireCommandStack(stack),
                       data |-> ex.data, before |-> cache]
    /\ got' = NoGot
    /\ UNCHANGED << wikiVars, req, msg, nav, sweep, sset, bonus, weapon >>

\* The single-field helpers (cache.py:160-168, 186-194, 201-209):
\*   pipe.hget(key, <field>); raw, _ = await pipe.execute()
\*   if not raw: raise CacheKeyError(<field>, key)
\*   return parse_<field>(raw)
\* The unpacking needs exactly two replies, else ValueError.
GetField(c, key, field) ==
    LET ex == ExpirePipelineExecute(c, << HGET(key, field) >>)
    IN  IF Len(ex.data) # 2
        THEN [cache |-> ex.cache, outcome |-> "ValueError", value |-> << >>]
        ELSE IF ex.data[1] = NoneV
        THEN [cache |-> ex.cache, outcome |-> "CacheKeyError", value |-> << >>]
        ELSE [cache |-> ex.cache, outcome |-> "ok", value |-> JsonLoads(ex.data[1])]

get_stats(c, key)     == GetField(c, key, STATS)
get_content(c, key)   == GetField(c, key, CONTENT)
get_wikilinks(c, key) == GetField(c, key, WIKILINKS)

\* get_rarities (cache.py:171-179):
\*   pipe.hmget(key, ContentKind.MIN_RARITY)
\*   (raw_min_rarity, raw_max_rarity), *_ = await pipe.execute()
\* The first reply is the list hmget returns, one value per field asked for;
\* unpacking it into two names needs exactly two values, else ValueError.
get_rarities(c, key) ==
    LET ex    == ExpirePipelineExecute(c, << HMGET(key, << MIN_RARITY >>) >>)
        first == ex.data[1][2]
    IN  IF Len(first) # 2
        THEN [cache |-> ex.cache, outcome |-> "ValueError", value |-> << >>]
        ELSE IF first[1] = NoneV \/ first[2] = NoneV
        THEN [cache |-> ex.cache, outcome |-> "CacheKeyError", value |-> << >>]
        ELSE [cache |-> ex.cache, outcome |-> "ok",
              value |-> << IntOf(first[1]), IntOf(first[2]) >>]

Helpers == { "get_stats", "get_content", "get_wikilinks", "get_rarities" }

CallHelper(helper, c, key) ==
    CASE helper = "get_stats"     -> get_stats(c, key)
      [] helper = "get_content"   -> get_content(c, key)
      [] helper = "get_wikilinks" -> get_wikilinks(c, key)
      [] OTHER                    -> get_rarities(c, key)

\* One helper called on one key
GetHelper(helper, key) ==
    /\ LET r == CallHelper(helper, cache, key)
       IN  /\ cache' = r.cache
           /\ got' = [helper |-> helper, key |-> key, outcome |-> r.outcome,
                      value |-> r.value]
    /\ pipe' = NoPipe
    /\ UNCHANGED << wikiVars, req, msg, nav, sweep, sset, bonus, weapon >>

\* Time passes.
CacheTick ==
    /\ \E p \in PageIds : KeyExists(cache, p)
    /\ cache' = AfterTick(cache)
    /\ pipe' = NoPipe
    /\ got' = NoGot
    /\ UNCHANGED << wikiVars, req, msg, nav, sweep, sset, bonus, weapon >>

InitCache ==
    /\ WikiIdle
    /\ LibIdle
    /\ cache = EmptyCache
    /\ req = [r \in Reqs |-> IdleReq]
    /\ msg = NoMessage
    /\ nav = NoNav

NextCache ==
    \/ \E stack \in Batches : PipeExecute(stack)
    \/ \E helper \in Helpers : \E key \in PipeKeys : GetHelper(helper, key)
    \/ CacheTick

SpecCache == InitCache /\ [][NextCache]_vars

\* -------------------------------------------------------------------------
\* SpecListing: the listing sweep  (backend/api_types.py:45-79,
\* backend/api.py:103-116)
\* -------------------------------------------------------------------------
MaxRedirects == 2      \* redirects one page record carries

\* A title is a sequence of characters; a rarity suffix ("/4-star") is one
\* token of it.
S4 == "/4-star"
S5 == "/5-star"
RaritySuffixes == { S4, S5 }

\* RARITY_SUFFIX_PATTERN.sub("", title, 1): the suffix at the end is removed
strip_rarity(title) ==
    IF title # << >> /\ title[Len(title)] \in RaritySuffixes
    THEN SubSeq(title, 1, Len(title) - 1)
    ELSE title

\* str.lower
lower(title) == [i \in 1..Len(title) |-> IF title[i] = "A" THEN "a" ELSE title[i]]

\* `sub in s` for strings
Contains(sub, str) ==
    \E i \in 0..(Len(str) - Len(sub)) : SubSeq(str, i + 1, i + Len(sub)) = sub

\* The titles the wiki gives pages and redirects
TitleInputs == { << "a" >>, << "A", "b" >>, << "b", S4 >>, << "b", S5 >> }

\* A record that passed PageInfoValidator: page id, title and redirect
\* titles.  The redirects of a page are pages of their own, so their titles
\* differ from each other and from the page's.
PageInfoInputs ==
    { p \in [pageid : 1..2, title : TitleInputs,
             redirects : UNION { [1..n -> TitleInputs] : n \in 0..MaxRedirects }] :
        /\ \A i \in 1..Len(p.redirects) : p.redirects[i] # p.title
        /\ \A i, j \in 1..Len(p.redirects) :
               p.redirects[i] = p.redirects[j] => i = j }

\* Mutant of unpack_aliases: a redirect is left out when its stripped title
\* occurs in the page's title.
unpack_aliases_RedirectInTitle(self) ==
    LET title   == strip_rarity(self.title)
        keep(r) == ~Contains(lower(strip_rarity(r)), lower(title))
        kept    == SelectSeq(self.redirects, keep)
    IN  << [pageid |-> self.pageid, alias_of |-> title, title |-> title] >>
        \o [i \in 1..Len(kept) |->
               [pageid |-> self.pageid, alias_of |-> title,
                title |-> strip_rarity(kept[i])]]

\* PageInfoValidator.unpack_aliases (api_types.py:65-79)
unpack_aliases(self) ==
    LET title   == strip_rarity(self.title)
        keep(r) == ~Contains(lower(title), lower(r))
        kept    == SelectSeq(self.redirects, keep)
    IN  << [pageid |-> self.pageid, alias_of |-> title, title |-> title] >>
        \o [i \in 1..Len(kept) |->
               [pageid |-> self.pageid, alias_of |-> title,
                title |-> strip_rarity(kept[i])]]

\* Mutant of FilterRows: the title of a yielded row is not remembered.
RECURSIVE FilterRows_NoAdd(_, _, _)
FilterRows_NoAdd(rows, titles, out) ==
    IF rows = << >> THEN [titles |-> titles, out |-> out]
    ELSE IF Head(rows).title \in titles
    THEN FilterRows_NoAdd(Tail(rows), titles, out)
    ELSE FilterRows_NoAdd(Tail(rows), titles, Append(out, Head(rows)))

\* fetch_unique_pages, the inner loop over one page's alias rows
\* (api.py:111-116): a row whose title is in `titles` is skipped, any other is
\* added to `titles` and yielded.
RECURSIVE FilterRows(_, _, _)
FilterRows(rows, titles, out) ==
    IF rows = << >> THEN [titles |-> titles, out |-> out]
    ELSE IF Head(rows).title \in titles
    THEN FilterRows(Tail(rows), titles, out)
    ELSE FilterRows(Tail(rows), titles \cup { Head(rows).title }, Append(out, Head(rows)))

\* fetch_unique_pages, one pass of `async for page in WikiRequest(...)`
SweepPage(page) ==
    /\ LET rows == unpack_aliases(page)
           f    == FilterRows(rows, sweep.titles, << >>)
       IN  sweep' = [titles |-> f.titles,
                     yielded |-> sweep.yielded \o [i \in 1..Len(f.out) |-> f.out[i].title],
                     page |-> << page >>, rows |-> rows, out |-> f.out]
    /\ UNCHANGED << wikiVars, cache, req, msg, nav, pipe, got, sset, bonus, weapon >>

InitListing ==
    /\ WikiIdle
    /\ LibIdle
    /\ cache = EmptyCache
    /\ req = [r \in Reqs |-> IdleReq]
    /\ msg = NoMessage
    /\ nav = NoNav

NextListing == \E page \in PageInfoInputs : SweepPage(page)

SpecListing == InitListing /\ [][NextListing]_vars

\* -------------------------------------------------------------------------
\* SpecStigmata: constructing a StigmataSet  (models/stigmata.py:80-106)
\* -------------------------------------------------------------------------
MaxStigs == 4      \* items a caller passes as `stigmata`

\* stigmata: t.List[Stigma] = pydantic.Field(max_items=3)
MAX_ITEMS == 3

\* constants.StigmaSlot, in the order of the enum
StigmaSlot == << "T", "M", "B" >>

\* What a caller may pass as one item of `stigmata`: a Stigma (its slot and
\* name), or something that is no Stigma (a dict of raw data).
StigmaItems ==
    [isStigma : { TRUE }, slot : { "T", "M", "B" }, name : { "x", "y" }]
        \cup { [isStigma |-> FALSE, slot |-> "", name |-> "" ] }

\* The values handed to the constructor: the `stigmata` argument, or raw page
\* data in which `raw` are the slots that have a "slot<slot>" entry.  `format`
\* is how the interpreter formats a member of a str-mixin enum in an f-string:
\* as its value ("T", python 3.10) or by its name ("StigmaSlot.TOP", 3.11 on).
StigmataSetInputs ==
    [stigmata : UNION { [1..n -> StigmaItems] : n \in 1..MaxStigs }, raw : { {} },
     format : { "value" }]
        \cup [stigmata : { << >> }, raw : SUBSET { "T", "M", "B" },
              format : { "value", "name" }]

\* Stigma(slot=slot, **values) for slot in constants.StigmaSlot
\*     if f"slot{slot}" in values                      (stigmata.py:97-101)
FromRaw(raw, format) ==
    LET present(slot) == format = "value" /\ slot \in raw
        slots == SelectSeq(StigmaSlot, present)
    IN  [i \in 1..Len(slots) |-> [isStigma |-> TRUE, slot |-> slots[i], name |-> "x"]]

\* Mutant of SlotsClash: the stigmata are told apart by name.
SlotsClash_ByName(stigmata) ==
    Cardinality({ stigmata[i].name : i \in 1..Len(stigmata) }) # Len(stigmata)

\* len({stig.slot for stig in stigmata}) != len(stigmata)   (stigmata.py:104)
SlotsClash(stigmata) ==
    Cardinality({ stigmata[i].slot : i \in 1..Len(stigmata) }) # Len(stigmata)

\* StigmataSet(**values): the root validator _validate_stigs, then the field
\* validation of `stigmata`.  Every error leaves the constructor as
\* pydantic.ValidationError; the outcome names its cause.
StigmataSet(values) ==
    LET given    == values.stigmata # << >>
        stigmata == IF given THEN values.stigmata ELSE FromRaw(values.raw, values.format)
    IN  IF given /\ \E i \in 1..Len(stigmata) : ~stigmata[i].isStigma
        THEN [outcome |-> "TypeError", stigmata |-> << >>]
        ELSE IF SlotsClash(stigmata)
        THEN [outcome |-> "ValueError", stigmata |-> << >>]
        ELSE IF Len(stigmata) > MAX_ITEMS
        THEN [outcome |-> "max_items", stigmata |-> << >>]
        ELSE [outcome |-> "ok", stigmata |-> stigmata]

Construct ==
    /\ ~sset.done
    /\ LET r == StigmataSet(sset.values)
       IN  sset' = [sset EXCEPT !.done = TRUE, !.outcome = r.outcome,
                                !.stigmata = r.stigmata]
    /\ UNCHANGED << wikiVars, cache, req, msg, nav, pipe, got, sweep, bonus, weapon >>

InitStigmata ==
    /\ WikiIdle
    /\ pipe = NoPipe /\ got = NoGot /\ sweep = NoSweep /\ bonus = NoBonus
    /\ weapon = NoWeapon
    /\ sset \in { [NoSet EXCEPT !.values = v] : v \in StigmataSetInputs }
    /\ cache = EmptyCache
    /\ req = [r \in Reqs |-> IdleReq]
    /\ msg = NoMessage
    /\ nav = NoNav

NextStigmata == Construct

SpecStigmata == InitStigmata /\ [][NextStigmata]_vars

\* -------------------------------------------------------------------------
\* SpecBonus: the set bonus of a StigmataSet  (models/stigmata.py:58-77, 134-183)
\* -------------------------------------------------------------------------

\* The set-bonus fields a Stigma may carry, as (2-piece, 3-piece): "" is a
\* bonus whose name or effect the page does not define (set_2p / set_3p are
\* None), any other value stands for a SetBonus of that name and effect.
BonusFields ==
    { << "", "" >>, << "A2", "" >>, << "A2", "A3" >>, << "", "A3" >>,
      << "B2", "" >>, << "B2", "B3" >>, << "C2", "C3" >> }

\* The StigmataSets that pass validation: one to three stigmata of pairwise
\* distinct slots, in the order the caller listed them.
StigmataSets ==
    LET Stig  == [slot : { "T", "M", "B" }, name : { "T", "M", "B" }, set : BonusFields]
        Valid(l) == /\ \A i \in 1..Len(l) : l[i].name = l[i].slot
                    /\ ~SlotsClash(l)
    IN  { l \in UNION { [1..n -> Stig] : n \in 1..MAX_ITEMS } : Valid(l) }

\* Stigma.set_bonuses: tuple(bonus for bonus in (self.set_2p, self.set_3p) if bonus)
set_bonuses(stig) ==
    LET present(b) == b # ""
    IN  SelectSeq(stig.set, present)

\* counts after the first n stigmata: the groups in insertion order, each the
\* bonus tuple and the stigmata that carry it (stigmata.py:149-154).
RECURSIVE Counts(_, _)
Counts(stigmata, n) ==
    IF n = 0 THEN << >>
    ELSE LET counts == Counts(stigmata, n - 1)
             stig   == stigmata[n]
             key    == set_bonuses(stig)
         IN  IF key = << >> THEN counts
             ELSE IF \E k \in 1..Len(counts) : counts[k].bonuses = key
             THEN [k \in 1..Len(counts) |->
                      IF counts[k].bonuses = key
                      THEN [counts[k] EXCEPT !.stigs = Append(@, stig)]
                      ELSE counts[k]]
             ELSE Append(counts, [bonuses |-> key, stigs |-> << stig >>])

\* Python's seq[:n] for n >= 0
SliceTo(seq, n) == SubSeq(seq, 1, IF n < Len(seq) THEN n ELSE Len(seq))

\* not counts or len(counts) == len(self.stigmata)   (stigmata.py:156)
NoSetBonus(counts, stigmata) == counts = << >> \/ Len(counts) = Len(stigmata)

\* StigmataSet.get_main_set_with_bonuses (stigmata.py:134-160); max() returns
\* the first group of the greatest size.
get_main_set_with_bonuses(stigmata) ==
    LET counts == Counts(stigmata, Len(stigmata))
    IN  IF NoSetBonus(counts, stigmata)
        THEN [stigs |-> << >>, bonuses |-> << >>]
        ELSE LET k == CHOOSE i \in 1..Len(counts) :
                          /\ \A j \in 1..Len(counts) :
                                 Len(counts[j].stigs) <= Len(counts[i].stigs)
                          /\ \A j \in 1..(i - 1) :
                                 Len(counts[j].stigs) < Len(counts[i].stigs)
             IN  [stigs   |-> counts[k].stigs,
                  bonuses |-> SliceTo(counts[k].bonuses, Len(counts[k].stigs) - 1)]

\* One caller reads get_main_set_with_bonuses and the properties main_set and
\* name (stigmata.py:170-183); << >> and "" stand for None.
GetMainSet ==
    /\ ~bonus.called
    /\ LET r == get_main_set_with_bonuses(bonus.stigmata)
       IN  bonus' = [bonus EXCEPT !.called = TRUE, !.main = r.stigs,
                                  !.bonuses = r.bonuses, !.main_set = r.stigs,
                                  !.name = IF r.stigs # << >> THEN r.stigs[1].name
                                           ELSE ""]
    /\ UNCHANGED << wikiVars, cache, req, msg, nav, pipe, got, sweep, sset, weapon >>

InitBonus ==
    /\ WikiIdle
    /\ pipe = NoPipe /\ got = NoGot /\ sweep = NoSweep /\ sset = NoSet
    /\ weapon = NoWeapon
    /\ bonus \in { [NoBonus EXCEPT !.stigmata = l] : l \in StigmataSets }
    /\ cache = EmptyCache
    /\ req = [r \in Reqs |-> IdleReq]
    /\ msg = NoMessage
    /\ nav = NoNav

SpecBonus == InitBonus /\ [][GetMainSet]_vars

\* -------------------------------------------------------------------------
\* SpecWeapon: parsing a Weapon  (models/weapons.py:44-112)
\* -------------------------------------------------------------------------

\* constants.WeaponRarity: R1 .. R6
WeaponRarities == 1..6

\* What Weapon.parse_obj is given: page data with a base rarity and, per name
\* of `rarities`, an ATK field (0: absent or empty) with its CRT field; or
\* values that bring their own `stats`, a list of WeaponStats.
WeaponInputs ==
    [given : { FALSE }, stats : { << >> }, rarity : WeaponRarities,
     atk : [1..6 -> { 0, 10 }]]
        \cup [given : { TRUE }, rarity : { 1 }, atk : { NoTiers },
              stats : UNION { [1..n -> [rarity : { 2, 3, 5 }, attack : { 10 },
                                        crit : { 1 }]] : n \in 0..2 }]

\* Weapon(**values): _pack_stats, then the field validation; stats is a
\* t.Sequence[WeaponStats] with no length or order constraint.
\* WeaponRarity(int(base_rarity) + len(stats)) raises ValueError above R6.
Weapon(values) ==
    LET stats == IF values.given THEN values.stats
                 ELSE PackStats(values.atk, values.atk, values.rarity, 1, << >>)
    IN  IF \E i \in 1..Len(stats) : stats[i].rarity \notin WeaponRarities
        THEN [outcome |-> "ValidationError", stats |-> << >>]
        ELSE [outcome |-> "ok", stats |-> stats]

\* Weapon.max_rarity (weapons.py:110-112): self.stats[-1].rarity
max_rarity(stats) ==
    IF stats = << >> THEN [outcome |-> "IndexError", value |-> 0]
    ELSE [outcome |-> "ok", value |-> MaxRarityOf(stats)]

\* models.Weapon.parse_obj(values), and max_rarity read on the result
ParseWeapon ==
    /\ ~weapon.parsed
    /\ LET w == Weapon(weapon.values)
       IN  weapon' = [weapon EXCEPT
                         !.parsed = TRUE, !.outcome = w.outcome, !.stats = w.stats,
                         !.max_rarity = IF w.outcome = "ok" THEN max_rarity(w.stats)
                                        ELSE @]
    /\ UNCHANGED << wikiVars, cache, req, msg, nav, pipe, got, sweep, sset, bonus >>

InitWeapon ==
    /\ WikiIdle
    /\ pipe = NoPipe /\ got = NoGot /\ sweep = NoSweep /\ sset = NoSet
    /\ bonus = NoBonus
    /\ weapon \in { [NoWeapon EXCEPT !.values = v] : v \in WeaponInputs }
    /\ cache = EmptyCache
    /\ req = [r \in Reqs |-> IdleReq]
    /\ msg = NoMessage
    /\ nav = NoNav

SpecWeapon == InitWeapon /\ [][ParseWeapon]_vars

\* -------------------------------------------------------------------------
\* Claims
\* -------------------------------------------------------------------------

\* C1 (Spec): a handler takes the cache-hit path if and only if every field of
\* its grouped read came back present; a key that lacks a requested field is
\* served as a miss.
C1_HitIffAllFieldsPresent ==
    \A r \in Reqs :
        (req[r].pc # "idle" /\ req[r].category \in Handled)
            => (req[r].hit <=> \A i \in 1..Len(req[r].data) : req[r].data[i] # NoneV)

\* C2 (Spec): a battlesuit request that missed the cache and fetched a valid
\* revision has stored content, wikilinks and category = "Category:Battlesuits"
\* under its page id; and a request for an id whose key is alive when the
\* request starts never reaches the remote fetch.
C2_StoredThenNoRefetch ==
    \A r \in Reqs :
        /\ (/\ req[r].pc = "done"
            /\ req[r].category = BATTLESUITS
            /\ req[r].outcome = "ok"
            /\ ~req[r].hit)
              => /\ req[r].stored[CONTENT]   = Json(Prettify(req[r].page))
                 /\ req[r].stored[WIKILINKS] = Json(WikiLinkDict(req[r].page))
                 /\ req[r].stored[CATEGORY]  = Raw(BATTLESUITS)
        /\ req[r].sawKey => (req[r].pc = "done" /\ ~req[r].fetched)

\* C2 witness: one call populated page 1 from the remote wiki, and a call that
\* found the key alive was served the same result from the cache.
C2_Witness ==
    \E r1, r2 \in Reqs :
        /\ r1 # r2
        /\ req[r1].pc = "done" /\ req[r1].category = BATTLESUITS /\ req[r1].page = 1
        /\ req[r1].outcome = "ok" /\ req[r1].fetched
        /\ req[r2].pc = "done" /\ req[r2].category = BATTLESUITS /\ req[r2].page = 1
        /\ req[r2].outcome = "ok" /\ req[r2].sawKey /\ ~req[r2].fetched
        /\ req[r2].result = req[r1].result

\* C3 (SpecWiki): once a response with the batch-complete marker has been
\* received no further GET is issued, and with the buffer drained the next
\* request ends the sequence; also when that response carried a continue token.
C3_NoGetAfterBatchComplete ==
    [][seenBC => (gets' = gets /\ (wr_iterator = << >> => last' = "stop"))]_vars

\* C3 witness: the marker came with a continue token and the sequence has ended.
C3_Witness ==
    /\ seenBC
    /\ responses[lastResp].cont
    /\ responses[lastResp].bc
    /\ Len(responses[lastResp].recs) > 0
    /\ last = "stop"

\* C4 (SpecWiki): after a response without a continue token no further page is
\* fetched, batch-complete or not.
C4_NoFetchWithoutContinue ==
    [][(lastResp # 0 /\ ~responses[lastResp].cont) => gets' = gets]_vars

\* C5 (SpecWiki): with the terminal flag set and the buffer empty, every request
\* for a record ends the sequence normally, fetches nothing and leaves the
\* iterator exhausted.
C5_ExhaustedStops ==
    [][(wr_done /\ wr_iterator = << >>)
          => /\ last' = "stop"
             /\ gets' = gets
             /\ yielded' = yielded
             /\ wr_done' /\ wr_iterator' = << >>]_vars

\* C5 witness: the final page had an empty record mapping, and the request after
\* it ended the sequence.
C5_Witness ==
    /\ wr_done /\ wr_iterator = << >>
    /\ last = "stop"
    /\ responses[lastResp].recs = << >>

\* The records of the received responses that pass validation, in order
RECURSIVE ValidOf(_, _)
ValidOf(rs, idx) ==
    IF idx = << >> THEN << >>
    ELSE LET recs == PageRecords(rs, Head(idx))
             ok(x) == x.valid
             tags  == SelectSeq(recs, ok)
         IN  [i \in 1..Len(tags) |-> << tags[i].page, tags[i].pos >>]
             \o ValidOf(rs, Tail(idx))

\* C6 (SpecWiki): for every sequence of pages the iteration ends normally and
\* has then yielded exactly the records that pass validation, once each and in
\* page/record order.
C6_YieldsExactlyValid ==
    (last \in { "stop", "error" })
        => (last = "stop" /\ yielded = ValidOf(responses, received))

\* C7 (SpecNav): a browse or change-rarity interaction by a user other than the
\* control's bound author is rejected with a notice and changes nothing: no
\* orchestrator call, no fetch, no cache read or TTL refresh, no edit.
C7_ForeignUserChangesNothing ==
    [][(/\ nav'.action \in { "browse", "rarity" }
        /\ nav'.user # (IF nav'.action = "browse"
                        THEN msg.components.browser[1].author_id
                        ELSE msg.components.rarity[1].author_id))
          => /\ nav'.outcome = "rejected"
             /\ nav'.notice
             /\ nav'.call = << >>
             /\ ~nav'.read
             /\ ~nav'.fetched
             /\ cache' = cache
             /\ msg' = msg]_vars

\* C7 witness: a foreign user tried to change the rarity of a weapon message.
C7_Witness ==
    /\ nav.action = "rarity"
    /\ nav.user # Author
    /\ nav.outcome = "rejected"
    /\ msg.alive

\* C8 (SpecNav): the message is deleted only by its bound author or by a user
\* whose permissions include manage_messages.
C8_DeleteOnlyAuthorOrManager ==
    ~msg.alive
        => \/ nav.user = msg.components.delete[1].user_id
           \/ "manage_messages" \in nav.input[1]

\* C9 (SpecNav): after an authorized browse from page P of category C the
\* rebuilt controls carry a Back option with value (P, C), and the orchestrator
\* was run for exactly the selected (category, page).
C9_BackOptionAfterBrowse ==
    (nav.action = "browse" /\ nav.outcome = "edited")
        => /\ nav.call = << nav.input[2], nav.input[1] >>
           /\ msg.components.browser # << >>
           /\ Head(msg.components.browser[1].options) = nav.src

\* C10 (SpecNav): a change-rarity interaction whose rarity lies outside
\* [min_rarity, max_rarity] of the weapon never edits the message.
C10_OutOfRangeRarityRejected ==
    (/\ nav.action = "rarity"
     /\ \/ nav.input[1] < Wiki[msg.components.rarity[1].page_id].rarity
        \/ nav.input[1] > MaxRarityOf(WeaponStatsOf(msg.components.rarity[1].page_id)))
        => nav.outcome # "edited"

\* C11 (SpecNav): a change-rarity interaction with min_rarity <= r <= max_rarity
\* that edits the message shows in the header the stats entry of the weapon
\* whose rarity is r (its attack and crit), whether the data came from the
\* cache or from a fresh revision.
C11_InRangeRarityShowsItsTier ==
    (/\ nav.action = "rarity"
     /\ nav.outcome = "edited"
     /\ nav.input[1] >= Wiki[msg.components.rarity[1].page_id].rarity
     /\ nav.input[1] <= MaxRarityOf(WeaponStatsOf(msg.components.rarity[1].page_id)))
        => LET stats == WeaponStatsOf(msg.components.rarity[1].page_id)
               row   == msg.embeds[1].fmt[2]
           IN  /\ \E i \in 1..Len(stats) : stats[i].rarity = nav.input[1]
               /\ \A i \in 1..Len(stats) :
                      stats[i].rarity = nav.input[1]
                          => /\ row.rarity = nav.input[1]
                             /\ row.attack = stats[i].attack
                             /\ row.crit   = stats[i].crit

\* C11 witness: the key had expired, so the data came from a fresh revision,
\* and the header shows the top tier of the weapon.
C11_Witness ==
    /\ nav.action = "rarity"
    /\ nav.outcome = "edited"
    /\ nav.fetched
    /\ nav.input[1] = 5
    /\ msg.embeds[1].fmt[2].attack = 50

\* The same on the cache-hit path, for the lowest tier.
C11_WitnessCached ==
    /\ nav.action = "rarity"
    /\ nav.outcome = "edited"
    /\ ~nav.fetched
    /\ nav.input[1] = 3
    /\ msg.embeds[1].fmt[2].attack = 30

\* C12 (Spec): on a cache miss the response is returned without waiting for
\* the cache write-back: whenever a call's write-back is still pending, the
\* call has already returned its response.
C12_ResponseBeforeWriteBack ==
    \A r \in Reqs : req[r].pc = "write" => req[r].outcome = "ok"

\* C13 (Spec): a call that found nothing usable in the cache for a page id
\* the remote wiki has no page for fails with an error, never reaches the
\* write-back, and no field is ever stored under that page id.
C13_NoPageFailsAndWritesNothing ==
    \A r \in Reqs :
        (/\ req[r].pc # "idle"
         /\ req[r].category \in Handled
         /\ ~req[r].hit
         /\ ~Wiki[req[r].page].exists)
            => /\ req[r].pc \in { "fetch", "done" }
               /\ req[r].pc = "done"
                    => /\ req[r].outcome = "RuntimeError"
                       /\ req[r].result = << >>
                       /\ req[r].stored = EmptyHash
               /\ ~KeyExists(cache, req[r].page)

\* C13 witness: a stigmata request for the page id the wiki does not have went
\* to the remote wiki and failed.
C13_Witness ==
    \E r \in Reqs :
        /\ req[r].pc = "done"
        /\ req[r].category = STIGMATA
        /\ req[r].page = 4
        /\ req[r].fetched
        /\ req[r].outcome = "RuntimeError"

\* C14 (Spec): handle_request accepts exactly battlesuits, stigmata and
\* weapons; a call with any other category fails with a caller error before
\* any cache read, remote fetch or cache write, and the categories its error
\* reports as valid are all categories it accepts.
C14_ClosedDispatchReportsAccepted ==
    \A r \in Reqs :
        req[r].pc # "idle"
            => /\ (req[r].outcome = "ValueError")
                      <=> (req[r].category \notin { BATTLESUITS, STIGMATA, WEAPONS })
               /\ req[r].outcome = "ValueError"
                    => /\ req[r].pc = "done"
                       /\ req[r].data = << >>
                       /\ ~req[r].fetched
                       /\ req[r].stored = EmptyHash
                       /\ req[r].reported \subseteq { BATTLESUITS, STIGMATA, WEAPONS }

\* C15 (SpecCache): after a batch is executed through ExpirePipeline, every
\* key touched by a command of the batch has had an EXPIRE issued; the
\* pipeline appends that EXPIRE with the constant 300 s once per key, and
\* appends none for a key that has its own EXPIRE in the batch.
C15_ExpireOncePerTouchedKey ==
    pipe.ran
        => LET n       == Len(pipe.stack)
               m       == Len(pipe.executed)
               touched == { pipe.stack[i].key : i \in 1..n }
               own     == { pipe.stack[i].key :
                               i \in { j \in 1..n : pipe.stack[j].cmd = "EXPIRE" } }
           IN  /\ m >= n
               /\ SubSeq(pipe.executed, 1, n) = pipe.stack
               /\ \A k \in touched :
                      \E i \in 1..m : /\ pipe.executed[i].cmd = "EXPIRE"
                                      /\ pipe.executed[i].key = k
               /\ \A i \in (n + 1)..m :
                      /\ pipe.executed[i] = EXPIRE(pipe.executed[i].key, 300)
                      /\ pipe.executed[i].key \in touched \ own
                      /\ \A j \in (n + 1)..m :
                             pipe.executed[j].key = pipe.executed[i].key => j = i
               /\ \A k \in touched \ own :
                      \E i \in (n + 1)..m : pipe.executed[i].key = k

\* C15 witness: one batch wrote key 1 and then read it; the pipeline appended
\* a single EXPIRE for the key.
C15_Witness ==
    /\ pipe.ran
    /\ Len(pipe.stack) = 2
    /\ pipe.stack[1].cmd = "HSET" /\ pipe.stack[1].key = 1
    /\ pipe.stack[2].cmd = "HMGET" /\ pipe.stack[2].key = 1
    /\ Len(pipe.executed) = 3
    /\ pipe.executed[3] = EXPIRE(1, CACHE_EXPIRE_TIME)

\* A batch that only reads: the grouped cache read of the handlers
ReadOnly(stack) == \A i \in 1..Len(stack) : stack[i].cmd = "HMGET"

\* C16 (SpecCache): a grouped cache read changes no stored value, so the same
\* read run again with nothing in between returns identical values; and a read
\* leaves every existing key in place with a TTL at least as large as before.
C16_ReadIdempotentNeverShortensTTL ==
    [][(pipe'.ran /\ ReadOnly(pipe'.stack))
          => /\ \A k \in PageIds : cache'[k].h = cache[k].h
             /\ \A k \in PageIds :
                    KeyExists(cache, k)
                        => KeyExists(cache', k) /\ cache'[k].ttl >= cache[k].ttl
             /\ (pipe.ran /\ pipe.stack = pipe'.stack) => pipe'.data = pipe.data]_vars

\* C16 witness: the weapon key had 60 s left and a grouped read returned its
\* stats and put the TTL back to the constant.
C16_Witness ==
    /\ pipe.ran
    /\ pipe.stack = << HMGET(2, FieldsOf(WEAPONS)) >>
    /\ pipe.before[2].ttl = 60
    /\ pipe.data[1][2][3] = Json(WeaponStatsOf(2))
    /\ cache[2].ttl = CACHE_EXPIRE_TIME

\* The fields a helper needs, and the value it is to decode from them
RequiredFields(helper) ==
    CASE helper = "get_stats"     -> { STATS }
      [] helper = "get_content"   -> { CONTENT }
      [] helper = "get_wikilinks" -> { WIKILINKS }
      [] OTHER                    -> { MIN_RARITY, MAX_RARITY }

Decoded(helper, h) ==
    CASE helper = "get_stats"     -> JsonLoads(h[STATS])
      [] helper = "get_content"   -> JsonLoads(h[CONTENT])
      [] helper = "get_wikilinks" -> JsonLoads(h[WIKILINKS])
      [] OTHER                    -> << IntOf(h[MIN_RARITY]), IntOf(h[MAX_RARITY]) >>

\* C17 (SpecCache): each typed read helper returns the decoded value when its
\* required fields are stored under the key, and raises CacheKeyError and no
\* other error when one of them is missing.
C17_HelpersDecodeOrCacheKeyError ==
    got.helper # ""
        => LET h == cache[got.key].h
           IN  IF \A f \in RequiredFields(got.helper) : h[f] # NoneV
               THEN got.outcome = "ok" /\ got.value = Decoded(got.helper, h)
               ELSE got.outcome = "CacheKeyError"

C19_SweepYieldsFirstRowPerTitle ==
    [][LET rows  == sweep'.rows
           first == { i \in 1..Len(rows) :
                        /\ \A k \in 1..Len(sweep.yielded) : sweep.yielded[k] # rows[i].title
                        /\ \A j \in 1..(i - 1) : rows[j].title # rows[i].title }
       IN  /\ Len(sweep'.out) = Cardinality(first)
           /\ \A n \in 1..Len(sweep'.out) :
                  \E i \in first :
                      /\ Cardinality({ j \in first : j < i }) = n - 1
                      /\ sweep'.out[n] = rows[i]
           /\ sweep'.yielded
                  = sweep.yielded \o [n \in 1..Len(sweep'.out) |-> sweep'.out[n].title]
           /\ \A a, b \in 1..Len(sweep'.yielded) :
                  sweep'.yielded[a] = sweep'.yielded[b] => a = b]_vars

\* C19 witness: a page whose two redirects strip to one title, met after that
\* page's own title had been yielded for an earlier page: one row is yielded.
C19_Witness ==
    /\ Len(sweep.rows) = 3
    /\ sweep.rows[2].title = sweep.rows[3].title
    /\ Len(sweep.out) = 1
    /\ sweep.out[1] = sweep.rows[2]
    /\ Len(sweep.yielded) >= 2

\* C20 (SpecStigmata): constructing a StigmataSet from stigmata two of which
\* have the same slot always fails validation, and no constructed StigmataSet
\* holds two stigmata of one slot.
C20_NoTwoStigmataInOneSlot ==
    sset.done
        => /\ (\E i, j \in 1..Len(sset.values.stigmata) :
                   /\ i # j
                   /\ sset.values.stigmata[i].isStigma
                   /\ sset.values.stigmata[j].isStigma
                   /\ sset.values.stigmata[i].slot = sset.values.stigmata[j].slot)
                => sset.outcome # "ok"
           /\ sset.outcome = "ok"
                => \A i, j \in 1..Len(sset.stigmata) :
                       sset.stigmata[i].slot = sset.stigmata[j].slot => i = j

\* C20 witness: two stigmata of different names, both for the top slot, were
\* refused by the slot check.
C20_Witness ==
    /\ sset.done
    /\ Len(sset.values.stigmata) = 2
    /\ sset.values.stigmata[1].slot = "T" /\ sset.values.stigmata[1].name = "x"
    /\ sset.values.stigmata[2].slot = "T" /\ sset.values.stigmata[2].name = "y"
    /\ sset.outcome = "ValueError"

\* C21 (SpecStigmata): every successfully constructed StigmataSet holds between
\* 1 and 3 stigmata, and input that defines no slot and passes no stigmata is
\* rejected.
C21_OneToThreeStigmata ==
    sset.done
        => /\ sset.outcome = "ok" => Len(sset.stigmata) \in 1..MAX_ITEMS
           /\ (sset.values.stigmata = << >> /\ sset.values.raw = {})
                => sset.outcome # "ok"

\* A StigmataSet of three stigmata whose bonus payloads are pairwise distinct
Mixed111(stigmata) ==
    /\ Len(stigmata) = 3
    /\ \A i, j \in 1..3 : i # j => set_bonuses(stigmata[i]) # set_bonuses(stigmata[j])

\* C22 (SpecBonus): for three stigmata that share one identical (2-piece,
\* 3-piece) bonus pair get_main_set_with_bonuses returns all three stigmata
\* and both bonuses; for three stigmata with pairwise distinct bonus payloads
\* it returns two empty tuples.
C22_FullSetAndMixedSet ==
    bonus.called
        => /\ (/\ Len(bonus.stigmata) = 3
               /\ \A i \in 1..3 : /\ bonus.stigmata[i].set = bonus.stigmata[1].set
                                   /\ Len(set_bonuses(bonus.stigmata[i])) = 2)
                => /\ bonus.main = bonus.stigmata
                   /\ bonus.bonuses = set_bonuses(bonus.stigmata[1])
           /\ Mixed111(bonus.stigmata)
                => bonus.main = << >> /\ bonus.bonuses = << >>

\* C26 (SpecBonus): the returned bonus tuple has at most group_size - 1
\* entries, and whenever it is empty the returned stigmata tuple is empty too,
\* so main_set and name are None; for every set of 1 to 3 stigmata, also when
\* some carry no set bonus.
C26_NoBonusNoMainSet ==
    bonus.called
        => /\ Len(bonus.bonuses) <= (IF bonus.main = << >> THEN 0 ELSE Len(bonus.main) - 1)
           /\ bonus.bonuses = << >>
                => bonus.main = << >> /\ bonus.main_set = << >> /\ bonus.name = ""

\* C23 (SpecWeapon): for every Weapon, built from raw rarity-tier fields or
\* from an explicit stats list, max_rarity equals the rarity of the last
\* element of stats and the rarities of stats are strictly ascending.
C23_MaxRarityLastAndAscending ==
    (weapon.parsed /\ weapon.outcome = "ok")
        => /\ weapon.max_rarity.outcome = "ok"
           /\ weapon.max_rarity.value = weapon.stats[Len(weapon.stats)].rarity
           /\ \A i, j \in 1..Len(weapon.stats) :
                  i < j => weapon.stats[i].rarity < weapon.stats[j].rarity

\* C24 (SpecWeapon): every successfully parsed Weapon has a non-empty stats
\* sequence, so max_rarity and stats[0] are defined, and source data with no
\* rarity-tier attack field is rejected at parse time.
C24_ParsedWeaponHasStats ==
    weapon.parsed
        => /\ weapon.outcome = "ok"
                => weapon.stats # << >> /\ weapon.max_rarity.outcome = "ok"
           /\ (~weapon.values.given /\ weapon.values.atk = NoTiers)
                => weapon.outcome # "ok"

\* The rows a record is expected to yield: one for the stripped title, then one
\* per redirect of `kept`, in order.
ExpectedRows(page, kept) ==
    LET title == strip_rarity(page.title)
    IN  << [pageid |-> page.pageid, alias_of |-> title, title |-> title] >>
        \o [i \in 1..Len(kept) |->
               [pageid |-> page.pageid, alias_of |-> title,
                title |-> strip_rarity(kept[i])]]

\* C25 as stated (SpecListing): a record yields one row for its rarity-stripped
\* title, then exactly one row for each redirect whose rarity-stripped,
\* case-folded title is not a substring match of the rarity-stripped title;
\* every row carries the page id and alias_of = the rarity-stripped title.
C25_RowPerRedirectNotInTitle ==
    sweep.page # << >>
        => LET page == sweep.page[1]
               Fresh(r) == ~Contains(lower(strip_rarity(r)),
                                     lower(strip_rarity(page.title)))
           IN  sweep.rows = ExpectedRows(page, SelectSeq(page.redirects, Fresh))

\* C25 amended (SpecListing): a record yields one row for its rarity-stripped
\* title, then exactly one row for each redirect whose case-folded title does
\* not contain the case-folded rarity-stripped title of the record, and no row
\* for any other redirect; every row carries the page id and alias_of = the
\* rarity-stripped title.
C25_RowPerRedirectNotContainingTitle ==
    sweep.page # << >>
        => LET page == sweep.page[1]
               Fresh(r) == ~Contains(lower(strip_rarity(page.title)), lower(r))
           IN  sweep.rows = ExpectedRows(page, SelectSeq(page.redirects, Fresh))

\* C25 witness: the record "a" with the redirects "A b" and "b/4-star" yielded
\* the rows a and b: the redirect that contains the title was left out.
C25_Witness ==
    /\ sweep.page # << >>
    /\ sweep.page[1].title = << "a" >>
    /\ sweep.page[1].redirects = << << "A", "b" >>, << "b", S4 >> >>
    /\ Len(sweep.rows) = 2
    /\ sweep.rows[2].title = << "b" >>
    /\ sweep.rows[2].alias_of = << "a" >>

\* C27 (SpecNav): an authorized change-rarity transition replaces only the
\* rarity selector: the wikilink browser (its page id, category and options,
\* the Back option among them) and the delete button are the same after it as
\* before, and no field of any cache entry is written.
C27_RarityChangeLeavesSiblings ==
    [][(RarityBrowse /\ nav'.action = "rarity" /\ nav'.outcome = "edited")
          => /\ msg'.components.browser = msg.components.browser
             /\ msg'.components.delete = msg.components.delete
             /\ msg'.alive = msg.alive
             /\ \A p \in PageIds : cache'[p].h = cache[p].h]_vars

\* C27 witness: on the weapon page reached from battlesuit page 1 the rarity
\* was changed to 4; the message still has its wikilink browser with the Back
\* option (1, battlesuits) and its delete button.
C27_Witness ==
    /\ nav.action = "rarity" /\ nav.outcome = "edited" /\ nav.input = << 4 >>
    /\ msg.components.rarity # << >>
    /\ msg.components.rarity[1].options.default = 4
    /\ msg.components.browser # << >>
    /\ msg.components.browser[1].current_page_id = 2
    /\ msg.components.browser[1].category = WEAPONS
    /\ Head(msg.components.browser[1].options) = << 1, BATTLESUITS >>
    /\ msg.components.delete # << >>

\* C30 (SpecNav): every wikilink browser and rarity selector on the message is
\* bound to the author_id of the user who invoked the command, after any
\* sequence of browse, back and change-rarity interactions by any users.
C30_AuthorIdNeverChanges ==
    /\ \A i \in 1..Len(msg.components.browser) :
           msg.components.browser[i].author_id = Author
    /\ \A i \in 1..Len(msg.components.rarity) :
           msg.components.rarity[i].author_id = Author

\* C30 witness: after a browse to the weapon page, a change of rarity and a
\* rejected interaction of another user, both controls are on the message and
\* bound to the author.
C30_Witness ==
    /\ nav.user = "visitor" /\ nav.outcome = "rejected"
    /\ msg.components.browser # << >>
    /\ msg.components.browser[1].author_id = Author
    /\ Head(msg.components.browser[1].options) = << 1, BATTLESUITS >>
    /\ msg.components.rarity # << >>
    /\ msg.components.rarity[1].author_id = Author
    /\ msg.components.rarity[1].options.default = 4

\* C28 (Spec): under every interleaving of concurrent handle_request calls for
\* one page and category, a cache entry that exists holds exactly the fields one
\* write batch of its category writes, all of them, and a call of that
\* category that found the key read every field it asked for.
C28_EntryIsOneWholeBatch ==
    /\ \A p \in PageIds :
           KeyExists(cache, p)
               => /\ cache[p].h = SetMapping(Wiki[p].kind, p)
                  /\ \A i \in 1..Len(FieldsOf(Wiki[p].kind)) :
                         cache[p].h[FieldsOf(Wiki[p].kind)[i]] # NoneV
    /\ \A r \in Reqs :
           (req[r].hit /\ req[r].category = Wiki[req[r].page].kind)
               => \A i \in 1..Len(req[r].data) : req[r].data[i] # NoneV

\* C28 witness: two calls for the weapon page both missed, both fetched the
\* page and both wrote the entry, which exists.
C28_Witness ==
    /\ \A r \in Reqs :
           /\ req[r].pc = "done" /\ req[r].outcome = "ok"
           /\ req[r].category = WEAPONS /\ req[r].page = 2
           /\ ~req[r].hit /\ req[r].fetched
    /\ KeyExists(cache, 2)

\* C29 (Spec): for an unchanged remote page the result a cache hit returns
\* (the documents with the weapon header formatted at the minimum rarity, the
\* link graph, and for weapons the stats and the min / max rarity) equals the
\* result of the cache-miss call that populated the entry.
C29_HitResultEqualsMissResult ==
    \A r \in Reqs :
        (/\ req[r].pc = "done" /\ req[r].hit /\ req[r].outcome = "ok"
         /\ req[r].category = Wiki[req[r].page].kind)
            => LET hit  == req[r].result
                   miss == MissResult(req[r].category, req[r].page)
               IN  /\ hit[1] = miss[1]
                   /\ hit[2] = miss[2]
                   /\ req[r].category = WEAPONS
                        => /\ hit[3][1] = miss[3][1]
                           /\ hit[3][2][2] = miss[3][2][2]
                           /\ hit[3][3][2] = miss[3][3][2]

=============================================================================
